---- MODULE Spec2Model ----
(***************************************************************************)
(* dota2api: Initialise.get_all_matches_for_user and the page walk, the    *)
(* retry wrappers and the HTTP error check it is built on                  *)
(* (src/dota2api/__init__.py).                                             *)
(*                                                                         *)
(* The program is one sequential thread.  pc is its position; an action is *)
(* the code that runs between two blocking points (an executor call, a     *)
(* time.sleep).  The upstream service is the environment: a fixed set of   *)
(* matches of the subject (a stable upstream), drawn in Init.              *)
(***************************************************************************)
EXTENDS Integers, Sequences, FiniteSets, TLC

(***************************************************************************)
(* Program constants.                                                      *)
(***************************************************************************)
\* get_all_matches_for_user: hist['total_results'] < 500
ResultCap == 500
\* @retry(wait_random_min=5000, wait_random_max=60000, stop_max_attempt_number=5)
wait_random_min == 5000
wait_random_max == 60000
stop_max_attempt_number == 5
\* time.sleep(1), in the milliseconds the retry waits are counted in
pacing_delay == 1000

(***************************************************************************)
(* Bounds of the model.                                                    *)
(***************************************************************************)
\* matches of the subject whose hero is drawn freely (ids 1..MaxMatches)
MaxMatches == 3
\* the upstream lists at most this many matches on one page
MaxPageSize == 2
\* an upstream whose requests can fail holds at most this many such matches
MaxFlakyMatches == 1

\* hero_id of a match played with a hero that is not in the reference list
Unlisted == 0

HeroIds == {1, 2}
AccountIds == {"acct"}
\* D2_API_KEY not in os.environ / api_key=None
Absent == "<absent>"

(***************************************************************************)
(* The upstream service (environment).  An upstream u holds the subject's  *)
(* matches 1..Len(u.hero_of)+u.bulk, a larger id being a newer match.      *)
(* Match m <= Len(u.hero_of) was played with hero u.hero_of[m]; the u.bulk *)
(* newer matches were played with heroes outside the reference list.       *)
(* u.quirk: "asc" lists a page oldest match first instead of newest first; *)
(* "hidden" counts the oldest match but never lists it.                    *)
(***************************************************************************)
NumMatches(u) == Len(u.hero_of) + u.bulk

HeroOf(u, m) == IF m <= Len(u.hero_of) THEN u.hero_of[m] ELSE Unlisted

HasParam(kw, p) == p \in DOMAIN kw

\* The matches a GetMatchHistory query selects.  start_at_match_id: "start at
\* matches equal to or older than this match id"; 0 is no bound.
Selected(u, kw, m) ==
    /\ (HasParam(kw, "account_id") => kw.account_id = u.account_id)
    /\ (HasParam(kw, "hero_id") => HeroOf(u, m) = kw.hero_id)
    /\ (HasParam(kw, "start_at_match_id") /\ kw.start_at_match_id # 0
            => m <= kw.start_at_match_id)

Min(a, b) == IF a <= b THEN a ELSE b

Reverse(s) == [i \in 1..Len(s) |-> s[Len(s) + 1 - i]]

\* The selected matches among 1..Len(u.hero_of), newest first.
SelectedDrawn(u, kw) ==
    LET n == Len(u.hero_of)
        Sel(m) == Selected(u, kw, m)
    IN SelectSeq([i \in 1..n |-> n + 1 - i], Sel)

\* The number of selected matches among the u.bulk newer ones.  These differ
\* in their ids only, so the query selects the oldest of them and all up to
\* its bound, or none.
SelectedBulk(u, kw) ==
    LET n == Len(u.hero_of)
        bound == IF HasParam(kw, "start_at_match_id") /\ kw.start_at_match_id # 0
                 THEN Min(kw.start_at_match_id, NumMatches(u))
                 ELSE NumMatches(u)
    IN IF u.bulk > 0 /\ Selected(u, kw, n + 1) THEN bound - n ELSE 0

\* One page of match history.  The page takes the page_size newest selected
\* matches; of those it lists the ones that are not hidden, in the upstream's
\* order; results_remaining counts the selected matches after this page.
HistoryPage(u, kw) ==
    LET drawn  == SelectedDrawn(u, kw)
        nbulk  == SelectedBulk(u, kw)
        tbulk  == Min(u.page_size, nbulk)
        taken  == [i \in 1..tbulk |-> Len(u.hero_of) + nbulk + 1 - i]
                     \o SubSeq(drawn, 1, Min(u.page_size - tbulk, Len(drawn)))
        Listed(m) == ~(u.quirk = "hidden" /\ m = 1)
        listed == SelectSeq(taken, Listed)
        shown  == IF u.quirk = "asc" THEN Reverse(listed) ELSE listed
    IN [matches           |-> [i \in 1..Len(shown) |-> [match_id |-> shown[i]]],
        num_results       |-> Len(shown),
        total_results     |-> nbulk + Len(drawn),
        results_remaining |-> nbulk + Len(drawn) - Len(taken)]

MatchDetails(u, kw) == [match_id |-> kw.match_id, details |-> TRUE]

HeroList(u) == [heroes |-> [i \in 1..Len(u.heroes) |-> [id |-> u.heroes[i]]]]

(***************************************************************************)
(* State.                                                                  *)
(***************************************************************************)
VARIABLES
    pc,              \* position of the thread
    upstream,        \* the upstream service the executor talks to
    environ,         \* os.environ: the value of D2_API_KEY, or Absent
    api_key_arg,     \* the api_key argument Initialise was called with
    api_key,         \* self.api_key; Absent while no object is constructed
    user,            \* frame of get_all_matches_for_user
    batch,           \* frame of __get_all_match_history_in_batches
    call,            \* the fetch in progress (and, after it, the last one)
    attempt_number,  \* retrying: attempt_number of the wrapped call
    attempt,         \* the exception the last attempt of the call raised, or NoExc
    caught,          \* types of the exceptions the wrapper caught in this call
    exc,             \* the exception that propagated out of the program
    retval,          \* <<matches>> once get_all_matches_for_user returned
    processed,       \* match_ids of the summaries the for loop has taken
    req_status_code, \* req.status_code of the last response; 0: none
    slept,           \* ms the thread slept since the executor was last called
    nwaits,          \* waits the retry wrapper made within the call in progress
    absorbed         \* most failures an earlier wrapped call took before it returned

vars == <<pc, upstream, environ, api_key_arg, api_key, user, batch, call,
          attempt_number, attempt, caught, exc, retval, processed,
          req_status_code, slept, nwaits, absorbed>>

NoKwargs == [p \in {} |-> ""]
NoExc == [type |-> "", arg |-> ""]
NoCall == [fn |-> "", kwargs |-> NoKwargs, wrapped |-> FALSE, site |-> ""]
NoUser == [account_id |-> "", hist |-> <<>>, matches |-> <<>>, heroes |-> <<>>,
           each_hero |-> 0, line |-> 0]
NoBatch == [account_id |-> "", kwargs |-> NoKwargs, hist |-> <<>>,
            remaining_matches |-> 0, matches |-> <<>>, match_start_index |-> 0,
            each_match |-> 0]

\* The program's own state as one record, so that a stretch of code is an
\* operator from the state before it to the state after it.
Now == [pc |-> pc, api_key_arg |-> api_key_arg, api_key |-> api_key,
        user |-> user, batch |-> batch, call |-> call,
        attempt_number |-> attempt_number, attempt |-> attempt,
        caught |-> caught, exc |-> exc, retval |-> retval,
        processed |-> processed, req_status_code |-> req_status_code,
        slept |-> slept,
        nwaits |-> nwaits, absorbed |-> absorbed]

Becomes(k) ==
    /\ pc' = k.pc
    /\ api_key_arg' = k.api_key_arg
    /\ api_key' = k.api_key
    /\ user' = k.user
    /\ batch' = k.batch
    /\ call' = k.call
    /\ attempt_number' = k.attempt_number
    /\ attempt' = k.attempt
    /\ caught' = k.caught
    /\ exc' = k.exc
    /\ retval' = k.retval
    /\ processed' = k.processed
    /\ req_status_code' = k.req_status_code
    /\ slept' = k.slept
    /\ nwaits' = k.nwaits
    /\ absorbed' = k.absorbed
    /\ UNCHANGED <<upstream, environ>>

\* (mutation of Raise: the error is swallowed, what was accumulated returned)
Raise_partial(k, e) ==
    [k EXCEPT !.pc = "done", !.retval = <<k.user.matches \o k.batch.matches>>]

\* An exception nothing catches: it unwinds every frame, and the call that
\* was running returns nothing.
Raise(k, e) == [k EXCEPT !.pc = "raised", !.exc = e]

(***************************************************************************)
(* __init__ (credential resolution)                                        *)
(***************************************************************************)
Truthy(s) == s # Absent /\ s # ""

\* (mutation of init: the environment variable first)
init_env_first(k, arg, env) ==
    LET k1 == [k EXCEPT !.api_key_arg = arg]
    IN IF env # Absent
       THEN [k1 EXCEPT !.pc = "ready", !.api_key = env]
       ELSE IF Truthy(arg)
            THEN [k1 EXCEPT !.pc = "ready", !.api_key = arg]
            ELSE [k1 EXCEPT !.pc = "raised",
                            !.exc = [type |-> "APIAuthenticationError", arg |-> "None"]]

\* lines 36-41.  arg: the api_key argument (Absent for None); env:
\* os.environ's D2_API_KEY (Absent when the variable is not set).
init(k, arg, env) ==
    LET k1 == [k EXCEPT !.api_key_arg = arg]
    IN IF Truthy(arg)
       THEN [k1 EXCEPT !.pc = "ready", !.api_key = arg]
       ELSE IF env # Absent
            THEN [k1 EXCEPT !.pc = "ready", !.api_key = env]
            ELSE Raise(k1, [type |-> "APIAuthenticationError", arg |-> "None"])

(***************************************************************************)
(* __build_url, __check_http_err and the three fetches                     *)
(***************************************************************************)
\* kwargs['key'] = self.api_key; language and format unless given
build_url(key, kwargs) ==
    ("key" :> key) @@ kwargs @@ ("language" :> "en_us") @@ ("format" :> "json")

\* (mutation of check_http_err: every 5xx status taken for a timeout)
check_http_err_5xx(key, status_code) ==
    IF status_code = 403
    THEN <<[type |-> "APIAuthenticationError", arg |-> key]>>
    ELSE IF status_code >= 500
         THEN <<[type |-> "APITimeoutError", arg |-> ""]>>
         ELSE <<>>

\* <<>> for "return False", else the exception raised
check_http_err(key, status_code) ==
    IF status_code = 403
    THEN <<[type |-> "APIAuthenticationError", arg |-> key]>>
    ELSE IF status_code = 503
         THEN <<[type |-> "APITimeoutError", arg |-> ""]>>
         ELSE <<>>

\* What the executor can do with a request: answer with a status code, or
\* fail without one (a transport-level fault).  Only a flaky upstream fails.
StatusCodes == {200, 403, 500, 503}
Outcomes(u) ==
    IF u.flaky
    THEN [fault : {FALSE}, status_code : StatusCodes]
             \cup {[fault |-> TRUE, status_code |-> 0]}
    ELSE {[fault |-> FALSE, status_code |-> 200]}

\* response.build(req, url): the parsed body of the response
build(u, c) ==
    IF c.fn = "get_match_history" THEN HistoryPage(u, c.kwargs)
    ELSE IF c.fn = "get_match_details" THEN MatchDetails(u, c.kwargs)
    ELSE HeroList(u)

\* One run of get_match_history / get_match_details / get_heroes on the
\* request c with the executor doing o: [raised, exc, value, status_code].
fetch(u, key, c, o) ==
    IF o.fault
    THEN [raised |-> TRUE, exc |-> [type |-> "TransportError", arg |-> ""],
          value |-> <<>>, status_code |-> 0]
    ELSE LET e == check_http_err(key, o.status_code)
         IN IF e # <<>>
            THEN [raised |-> TRUE, exc |-> e[1], value |-> <<>>,
                  status_code |-> o.status_code]
            ELSE [raised |-> FALSE, exc |-> NoExc, value |-> <<build(u, c)>>,
                  status_code |-> o.status_code]

\* get_match_history(account_id, **kwargs): the request it sends
get_match_history(key, account_id, kwargs) ==
    [fn |-> "get_match_history",
     kwargs |-> build_url(key, kwargs @@ ("account_id" :> account_id))]

\* get_match_history_and_retry_on_failure(start_at_match_seq=None, ...)
get_match_history_and_retry_on_failure(key, account_id, kwargs) ==
    get_match_history(key, account_id,
                      ("start_at_match_seq" :> "None") @@ kwargs)
        @@ ("wrapped" :> TRUE)

get_match_details_and_retry_on_failure(key, match_id) ==
    [fn |-> "get_match_details",
     kwargs |-> build_url(key, ("match_id" :> match_id)),
     wrapped |-> TRUE]

get_heroes(key) ==
    [fn |-> "get_heroes", kwargs |-> build_url(key, NoKwargs), wrapped |-> FALSE]

\* (mutation of Call: one attempt counter for all the calls)
Call_shared(k, c, site) ==
    [k EXCEPT !.pc = "fetch", !.call = c @@ ("site" :> site),
              !.attempt_number = IF @ = 0 THEN 1 ELSE @,
              !.attempt = NoExc, !.caught = {}, !.nwaits = 0,
              !.absorbed = IF k.call.wrapped /\ k.nwaits > @ THEN k.nwaits ELSE @]

\* The thread enters the fetch c at the call site `site`: the wrapper of a
\* call counts its attempts from 1.
Call(k, c, site) ==
    [k EXCEPT !.pc = "fetch", !.call = c @@ ("site" :> site),
              !.attempt_number = 1, !.attempt = NoExc, !.caught = {},
              !.nwaits = 0,
              !.absorbed = IF k.call.wrapped /\ k.nwaits > @ THEN k.nwaits ELSE @]

(***************************************************************************)
(* @retry(wait_random_min, wait_random_max, stop_max_attempt_number): the  *)
(* decorator names no retry_on_exception and no retry_on_result.           *)
(***************************************************************************)
\* (mutation of should_reject: retry_on_exception naming the API errors)
should_reject_api_errors(a) ==
    a.raised /\ a.exc.type \in {"APITimeoutError", "APIAuthenticationError"}

\* Retrying.should_reject: without retry_on_exception every exception is
\* retried, without retry_on_result no result is.
should_reject(a) == a.raised

\* (mutation of stop: one attempt too many)
stop_late(previous_attempt_number) == previous_attempt_number > stop_max_attempt_number

\* Retrying.stop with stop_max_attempt_number
stop(previous_attempt_number) == previous_attempt_number >= stop_max_attempt_number

\* (mutation of Delays: seconds taken for milliseconds)
Delays_seconds == {wait_random_min \div 1000, wait_random_max \div 1000}

\* Retrying.random_sleep: a wait in wait_random_min..wait_random_max (ms)
Delays == {wait_random_min, (wait_random_min + wait_random_max) \div 2,
           wait_random_max}

\* Retrying.call after one attempt of the call in progress: the result comes
\* back (pc "returned"), the exception propagates, or the wrapper waits.
\* A call that is not wrapped lets every exception through.
retry(k, a) ==
    LET k1 == [k EXCEPT !.attempt = a.exc, !.req_status_code = a.status_code,
                        !.slept = 0]
    IN IF ~k.call.wrapped
       THEN IF a.raised THEN Raise(k1, a.exc) ELSE [k1 EXCEPT !.pc = "returned"]
       ELSE LET k2 == [k1 EXCEPT !.caught = IF a.raised THEN @ \cup {a.exc.type}
                                                        ELSE @]
            IN IF ~should_reject(a)
               THEN IF a.raised THEN Raise(k2, a.exc)
                                ELSE [k2 EXCEPT !.pc = "returned"]
               ELSE IF stop(k.attempt_number)
                    THEN Raise(k2, a.exc)
                    ELSE [k2 EXCEPT !.pc = "backoff"]

(***************************************************************************)
(* __get_all_match_history_in_batches                                      *)
(***************************************************************************)
Last(s) == s[Len(s)]

\* line 90: return matches
batches_return(k) == [k EXCEPT !.pc = "batches_return"]

\* lines 86-87: the cursor of the next page, then time.sleep(1)
batches_L86(k) ==
    LET hist == k.batch.hist[1]
    IN IF Len(hist.matches) = 0
       THEN Raise(k, [type |-> "IndexError", arg |-> ""])
       ELSE [k EXCEPT !.batch.match_start_index = Last(hist.matches).match_id - 1,
                      !.pc = "sleep_page"]

\* (mutation of batches_for: no time.sleep(1) before the detail fetch)
batches_for_unpaced(k) ==
    LET hist == k.batch.hist[1]
    IN IF k.batch.each_match <= Len(hist.matches)
       THEN Call([k EXCEPT !.processed = Append(@, hist.matches[k.batch.each_match].match_id)],
                 get_match_details_and_retry_on_failure(k.api_key,
                     hist.matches[k.batch.each_match].match_id), "L83")
       ELSE batches_L86(k)

\* line 81: the for loop takes the next match of the page (each_match is
\* its index), then line 82 sleeps; after the last one, line 86.
batches_for(k) ==
    LET hist == k.batch.hist[1]
    IN IF k.batch.each_match <= Len(hist.matches)
       THEN [k EXCEPT !.pc = "sleep_detail",
                      !.processed = Append(@, hist.matches[k.batch.each_match].match_id)]
       ELSE batches_L86(k)

\* (mutation of batches_while: while remaining_matches >= 0)
batches_while_geq(k) ==
    IF k.batch.remaining_matches >= 0
    THEN batches_for([k EXCEPT !.batch.remaining_matches = k.batch.hist[1].results_remaining,
                               !.batch.each_match = 1])
    ELSE batches_return(k)

\* lines 74-79: while remaining_matches > 0
batches_while(k) ==
    IF k.batch.remaining_matches > 0
    THEN batches_for([k EXCEPT !.batch.remaining_matches = k.batch.hist[1].results_remaining,
                               !.batch.each_match = 1])
    ELSE batches_return(k)

\* lines 71-72: hist is a local that line 68 alone assigns
batches_L71(k) ==
    IF k.batch.hist = <<>>
    THEN Raise(k, [type |-> "UnboundLocalError", arg |-> "hist"])
    ELSE batches_while([k EXCEPT !.batch.remaining_matches = k.batch.hist[1].total_results,
                                 !.batch.matches = <<>>])

\* lines 65-69: initial_hist is <<>> for None
batches_enter(k, account_id, initial_hist, kwargs) ==
    LET k1 == [k EXCEPT !.batch = [NoBatch EXCEPT !.account_id = account_id,
                                                  !.kwargs = kwargs,
                                                  !.match_start_index = 0]]
    IN IF initial_hist = <<>>
       THEN Call(k1, get_match_history_and_retry_on_failure(k.api_key, account_id,
                         ("start_at_match_id" :> k1.batch.match_start_index) @@ kwargs),
                 "L68")
       ELSE batches_L71(k1)

\* line 68 returned hist
batches_L68_returned(k, hist) == batches_L71([k EXCEPT !.batch.hist = <<hist>>])

\* line 82 slept: line 83 fetches the details of the match taken
batches_L83(k) ==
    Call(k, get_match_details_and_retry_on_failure(k.api_key,
                k.batch.hist[1].matches[k.batch.each_match].match_id), "L83")

\* line 83 returned details: line 84, then the for loop goes on
batches_L83_returned(k, details) ==
    batches_for([k EXCEPT !.batch.matches = Append(@, details),
                          !.batch.each_match = @ + 1])

\* line 87 slept: lines 88-89 fetch the next page
batches_L88(k) ==
    Call(k, get_match_history_and_retry_on_failure(k.api_key, k.batch.account_id,
                ("start_at_match_id" :> k.batch.match_start_index)), "L88")

\* line 88 returned hist: back to the while
batches_L88_returned(k, hist) == batches_while([k EXCEPT !.batch.hist = <<hist>>])

(***************************************************************************)
(* get_all_matches_for_user                                                *)
(***************************************************************************)
\* line 122: return matches
user_return(k) == [k EXCEPT !.pc = "done", !.retval = <<k.user.matches>>]

\* lines 115-119: the next hero of the list, or the end of the for loop
user_for(k) ==
    IF k.user.each_hero <= Len(k.user.heroes)
    THEN batches_enter([k EXCEPT !.user.line = 119], k.user.account_id, <<>>,
                       ("hero_id" :> k.user.heroes[k.user.each_hero].id))
    ELSE user_return(k)

\* (mutation of user_resume: a hero's matches put before the earlier ones)
user_resume_prepend(k) ==
    IF k.pc # "batches_return" THEN k
    ELSE IF k.user.line = 105
         THEN user_return([k EXCEPT !.user.matches = k.batch.matches])
         ELSE user_for([k EXCEPT !.user.matches = k.batch.matches \o @,
                                 !.user.each_hero = @ + 1])

\* The walk returned its matches (pc "batches_return") to the line that
\* called it: line 105 assigns them, line 120 extends matches with them.
user_resume(k) ==
    IF k.pc # "batches_return" THEN k
    ELSE IF k.user.line = 105
         THEN user_return([k EXCEPT !.user.matches = k.batch.matches])
         ELSE user_for([k EXCEPT !.user.matches = @ \o k.batch.matches,
                                 !.user.each_hero = @ + 1])

\* line 101: the first page, no hero and no cursor
get_all_matches_for_user(k, account_id) ==
    Call([k EXCEPT !.user = [NoUser EXCEPT !.account_id = account_id, !.line = 101],
                   !.batch = NoBatch, !.processed = <<>>, !.retval = <<>>],
         get_match_history_and_retry_on_failure(k.api_key, account_id, NoKwargs),
         "L101")

\* line 101 returned hist: lines 102-108
user_L101_returned(k, hist) ==
    LET k1 == [k EXCEPT !.user.hist = <<hist>>, !.user.matches = <<>>]
    IN IF hist.total_results < ResultCap
       THEN user_resume(batches_enter([k1 EXCEPT !.user.line = 105],
                                      k1.user.account_id, <<hist>>, NoKwargs))
       ELSE Call([k1 EXCEPT !.user.line = 108], get_heroes(k.api_key), "L108")

\* line 108 returned heroes: lines 110-114, up to time.sleep(1)
user_L108_returned(k, heroes) ==
    [k EXCEPT !.user.heroes = heroes.heroes, !.user.each_hero = 1,
              !.pc = "sleep_heroes"]

(***************************************************************************)
(* Initial states: no object constructed yet, any upstream of the bounds.  *)
(***************************************************************************)
\* reference lists
HeroLists == {<<>>, <<1>>, <<1, 2>>}

HeroLayouts == UNION {[1..n -> HeroIds \cup {Unlisted}] : n \in 0..MaxMatches}

\* the subject has n matches in all, or just under / at the cap
Bulks(n) == {0, ResultCap - 1 - n, ResultCap - n}

\* upstreams that answer every request
ReliableUpstreams ==
    UNION {{[account_id |-> a, hero_of |-> h, bulk |-> b, page_size |-> p,
             quirk |-> q, heroes |-> hl, flaky |-> FALSE] :
                a \in AccountIds, b \in Bulks(Len(h)), p \in 1..MaxPageSize,
                q \in IF Len(h) = 0 THEN {"none"} ELSE {"none", "asc", "hidden"},
                hl \in HeroLists} :
           h \in HeroLayouts}

\* upstreams any request to which can fail
FlakyUpstreams ==
    {[u EXCEPT !.flaky = TRUE] :
        u \in {r \in ReliableUpstreams : /\ Len(r.hero_of) <= MaxFlakyMatches
                                         /\ r.page_size = 1
                                         /\ r.quirk = "none"}}

Upstreams == ReliableUpstreams \cup FlakyUpstreams

InitWith(us, envs) ==
    /\ pc = "new"
    /\ upstream \in us
    /\ environ \in envs
    /\ api_key_arg = Absent
    /\ api_key = Absent
    /\ user = NoUser
    /\ batch = NoBatch
    /\ call = NoCall
    /\ attempt_number = 0
    /\ attempt = NoExc
    /\ caught = {}
    /\ exc = NoExc
    /\ retval = <<>>
    /\ processed = <<>>
    /\ req_status_code = 0
    /\ slept = 0
    /\ nwaits = 0
    /\ absorbed = 0

\* D2_API_KEY is not set
Init == InitWith(Upstreams, {Absent})

(***************************************************************************)
(* Actions.                                                                *)
(***************************************************************************)
\* Initialise(api_key=arg)
Construct ==
    /\ pc = "new"
    /\ \E arg \in {Absent, "", "argkey"} :
          Becomes(init(Now, arg, environ))

\* get_all_matches_for_user(account_id) is called: line 101 enters the fetch
GetAllMatchesForUser ==
    /\ pc = "ready"
    /\ \E account_id \in AccountIds :
          Becomes(get_all_matches_for_user(Now, account_id))

\* One attempt of the fetch in progress; Returned is the code that runs when
\* the fetch returns.
Attempt(Returned(_, _)) ==
    \E o \in Outcomes(upstream) :
        LET a == fetch(upstream, api_key, call, o)
            k == retry(Now, a)
        IN Becomes(IF k.pc = "returned"
                   THEN user_resume(Returned(k, a.value[1]))
                   ELSE k)

\* line 101
FirstPage ==
    /\ pc = "fetch"
    /\ call.site = "L101"
    /\ Attempt(user_L101_returned)

\* line 108
Heroes ==
    /\ pc = "fetch"
    /\ call.site = "L108"
    /\ Attempt(user_L108_returned)

\* lines 68-69
WalkFirstPage ==
    /\ pc = "fetch"
    /\ call.site = "L68"
    /\ Attempt(batches_L68_returned)

\* line 83
MatchDetail ==
    /\ pc = "fetch"
    /\ call.site = "L83"
    /\ Attempt(batches_L83_returned)

\* lines 88-89
NextPage ==
    /\ pc = "fetch"
    /\ call.site = "L88"
    /\ Attempt(batches_L88_returned)

\* Retrying.call: time.sleep(random_sleep), attempt_number += 1
Backoff ==
    /\ pc = "backoff"
    /\ \E sleep \in Delays :
          Becomes([Now EXCEPT !.pc = "fetch", !.attempt_number = @ + 1,
                              !.slept = sleep, !.nwaits = @ + 1])

\* line 114: time.sleep(1), then the for loop over the heroes
PaceHeroes ==
    /\ pc = "sleep_heroes"
    /\ Becomes(user_resume(user_for([Now EXCEPT !.slept = pacing_delay])))

\* line 82: time.sleep(1), then the detail fetch
PaceDetail ==
    /\ pc = "sleep_detail"
    /\ Becomes(batches_L83([Now EXCEPT !.slept = pacing_delay]))

\* line 87: time.sleep(1), then the next page
PacePage ==
    /\ pc = "sleep_page"
    /\ Becomes(batches_L88([Now EXCEPT !.slept = pacing_delay]))

Next ==
    \/ Construct
    \/ GetAllMatchesForUser
    \/ FirstPage
    \/ Heroes
    \/ WalkFirstPage
    \/ MatchDetail
    \/ NextPage
    \/ Backoff
    \/ PaceHeroes
    \/ PaceDetail
    \/ PacePage

Spec == Init /\ [][Next]_vars

(***************************************************************************)
(* Further specifications: the same program in other environments.         *)
(***************************************************************************)
\* One match of hero 1, D2_API_KEY set, empty or not set.
CredentialUpstreams ==
    {u \in Upstreams : /\ u.hero_of = <<1>>
                       /\ u.heroes = <<1>>
                       /\ u.page_size = 1
                       /\ u.quirk = "none"}

SpecCredentials ==
    InitWith(CredentialUpstreams, {Absent, "", "envkey"}) /\ [][Next]_vars

\* A subject of 600 matches, 200 with each of three heroes (match m with
\* hero 1 + (m - 1) % 3), on pages of 100 or of 200 matches.
FanOutUpstreams ==
    {[account_id |-> "acct", hero_of |-> [m \in 1..600 |-> 1 + ((m - 1) % 3)],
      bulk |-> 0, page_size |-> p, quirk |-> "none", heroes |-> <<1, 2, 3>>,
      flaky |-> FALSE] : p \in {100, 200}}

SpecFanOut ==
    InitWith(FanOutUpstreams \cup CredentialUpstreams, {Absent}) /\ [][Next]_vars

(***************************************************************************)
(* Properties.                                                             *)
(***************************************************************************)
MatchIds(ms) == [i \in 1..Len(ms) |-> ms[i].match_id]

NoRepeat(ids) == Cardinality({ids[i] : i \in 1..Len(ids)}) = Len(ids)

Running == pc \in {"fetch", "backoff", "sleep_heroes", "sleep_detail", "sleep_page"}
Ended == pc \in {"done", "raised"} /\ call # NoCall

\* The upstream answers every request and lists every match it counts,
\* newest first.
Consistent == ~upstream.flaky /\ upstream.quirk = "none"

\* C1: once the call has ended for a subject whose first page reported
\* total_results < 500 on a consistent stable upstream, it has returned a
\* sequence of total_results records holding every match id of the subject
\* exactly once.
C1_UnderCapComplete ==
    (Ended /\ Consistent /\ user.hist # <<>>
        /\ user.hist[1].total_results < ResultCap)
    => /\ pc = "done"
       /\ Len(retval[1]) = user.hist[1].total_results
       /\ NoRepeat(MatchIds(retval[1]))
       /\ {retval[1][i].match_id : i \in 1..Len(retval[1])} = 1..NumMatches(upstream)

\* C2: while a next-page request (lines 88-89) is in progress, its cursor
\* start_at_match_id is strictly less than every match_id of the page
\* fetched before it, whatever the order of that page.
C2_CursorBelowPageMin ==
    (pc \in {"fetch", "backoff"} /\ call.site = "L88")
    => \A i \in 1..Len(batch.hist[1].matches) :
          call.kwargs.start_at_match_id < batch.hist[1].matches[i].match_id

\* C3: a wrapped fetch that raised APIAuthenticationError (status 403) has
\* made exactly one attempt and the failure has propagated: the wrapper never
\* waits after it and never calls the executor again.
C3_AuthFailureNotRetried ==
    (call.wrapped /\ "APIAuthenticationError" \in caught)
    => /\ pc = "raised"
       /\ attempt_number = 1
       /\ exc.type = "APIAuthenticationError"

\* C4: a wrapped fetch never makes a 6th attempt, and when it has raised
\* APITimeoutError (status 503) on every attempt, the failure leaves the
\* wrapper after exactly 5 attempts, as the APITimeoutError it was.
C4_RetryBound ==
    /\ attempt_number <= 5
    /\ (call.wrapped /\ caught = {"APITimeoutError"} /\ attempt # NoExc
            /\ pc # "fetch")
       => IF attempt_number < 5
          THEN pc = "backoff"
          ELSE pc = "raised" /\ exc = [type |-> "APITimeoutError", arg |-> ""]

C4_Witness ==
    /\ pc = "raised"
    /\ call.fn = "get_match_details"
    /\ call.wrapped
    /\ caught = {"APITimeoutError"}
    /\ attempt_number = 5
    /\ exc.type = "APITimeoutError"

\* matches of the subject played with hero h
HeroCount(u, h) == Cardinality({m \in 1..NumMatches(u) : HeroOf(u, m) = h})

RECURSIVE SumHeroCounts(_, _)
SumHeroCounts(u, hs) ==
    IF hs = <<>> THEN 0 ELSE HeroCount(u, Head(hs)) + SumHeroCounts(u, Tail(hs))

\* C5: once the call has ended on a consistent stable upstream whose first
\* page reported total_results = 600 and whose 3 heroes have under 500
\* matches each, 600 together, it has returned 600 detail records with no
\* match_id repeated (pages of 100: a hero's 200 matches span two pages).
C5_FanOutComplete ==
    (Ended /\ Consistent /\ user.hist # <<>>
        /\ user.hist[1].total_results = 600
        /\ Len(upstream.heroes) = 3
        /\ \A i \in 1..3 : HeroCount(upstream, upstream.heroes[i]) < ResultCap
        /\ SumHeroCounts(upstream, upstream.heroes) = 600)
    => /\ pc = "done"
       /\ Len(retval[1]) = 600
       /\ NoRepeat(MatchIds(retval[1]))

\* C6: on an upstream that answers every request, a walk that has come to a
\* page with results_remaining = 0 raises no error, whatever the number of
\* matches on that page.
C6_WalkTerminates ==
    (~upstream.flaky /\ batch.hist # <<>> /\ batch.remaining_matches = 0
        /\ batch.hist[1].results_remaining = 0)
    => pc # "raised"

\* the detail records accumulated by the call in progress
Accumulated ==
    IF pc = "done" THEN retval[1] ELSE user.matches \o batch.matches

\* C7: at every point of a call on a consistent stable upstream, the
\* accumulated result holds one detail record per summary the for loop has
\* taken (the one whose details are being fetched excepted), in that order,
\* and no match_id twice.
C7_OneRecordPerSummary ==
    (Consistent /\ (Running \/ pc = "done"))
    => LET ids == MatchIds(Accumulated)
       IN /\ Len(ids) <= Len(processed)
          /\ Len(processed) <= Len(ids) + 1
          /\ ids = SubSeq(processed, 1, Len(ids))
          /\ Len(processed) = Len(ids) + 1
                => \/ pc = "sleep_detail"
                   \/ pc \in {"fetch", "backoff"} /\ call.site = "L83"
          /\ \A i \in 1..Len(ids) : Accumulated[i].details
          /\ NoRepeat(ids)

\* C8: when the last attempt of a fetch (page, detail or hero list) failed
\* and the fetch is not being retried, the call has failed with that error
\* and has returned nothing; a call that failed returned no sequence, and a
\* call that returned one ended no fetch in an error.
C8_AllOrNothing ==
    /\ (attempt # NoExc /\ pc \notin {"fetch", "backoff"})
            => (pc = "raised" /\ exc = attempt /\ retval = <<>>)
    /\ pc = "raised" => retval = <<>>
    /\ retval # <<>> => (pc = "done" /\ attempt = NoExc /\ exc = NoExc)

C8_Witness ==
    /\ pc = "raised"
    /\ attempt # NoExc
    /\ exc = attempt
    /\ Len(batch.matches) > 0
    /\ retval = <<>>

\* C9: after Initialise(api_key) the object holds the argument when one was
\* given, else the value of D2_API_KEY; with neither, construction failed
\* with APIAuthenticationError() and no request was issued.  Every request
\* carries the key of the object, and no call fails for a missing key.
C9_CredentialAtConstruction ==
    /\ pc # "new"
         => IF Truthy(api_key_arg) THEN api_key = api_key_arg
            ELSE IF environ # Absent THEN api_key = environ
            ELSE /\ pc = "raised"
                 /\ exc = [type |-> "APIAuthenticationError", arg |-> "None"]
                 /\ api_key = Absent
                 /\ call = NoCall
    /\ call # NoCall
         => /\ api_key # Absent
            /\ call.kwargs.key = api_key
            /\ exc # [type |-> "APIAuthenticationError", arg |-> "None"]

C9_Witness ==
    /\ pc = "done"
    /\ api_key_arg = ""
    /\ environ = "envkey"
    /\ api_key = "envkey"
    /\ call.kwargs.key = "envkey"
    /\ Len(retval[1]) > 0

\* C10: in the over-cap branch every page request of the walk for a hero
\* carries hero_id = that hero's id and the account_id of the subject.
C10_PagesRestrictedToHero ==
    (pc \in {"fetch", "backoff"} /\ user.line = 119
        /\ call.fn = "get_match_history")
    => /\ HasParam(call.kwargs, "hero_id")
       /\ call.kwargs.hero_id = user.heroes[user.each_hero].id
       /\ call.kwargs.account_id = user.account_id

\* C11: while a next-page request (lines 88-89) is in progress on a
\* consistent stable upstream, the page the walk processed before it
\* reported results_remaining > 0.
C11_NextPageOnlyIfRemaining ==
    (Consistent /\ pc \in {"fetch", "backoff"} /\ call.site = "L88")
    => batch.hist[1].results_remaining > 0

\* C12: the hero list is requested and requests carry hero_id only when
\* the first page reported total_results >= 500, and then the hero list is
\* requested; when it reported less (499 included) no hero list and no
\* further first page is requested, and the page the walk works on is the
\* first page already fetched.
C12_BranchSelection ==
    /\ (call.site = "L108" \/ HasParam(call.kwargs, "hero_id") \/ call.site = "L68")
          => (user.hist # <<>> /\ user.hist[1].total_results >= 500)
    /\ (user.hist # <<>> /\ user.hist[1].total_results >= 500)
          => user.line \in {108, 119}
    /\ (user.hist # <<>> /\ user.hist[1].total_results < 500)
          => /\ user.line = 105
             /\ batch.hist = user.hist

\* C13: after every step, the call in progress has counted its own attempts
\* (one more than the waits it made), whatever earlier calls absorbed, and
\* has given up only after its own 5; a failed attempt and the wait after it
\* leave the walk
\* where it is: the same request is made again, no page or detail taken or
\* accumulated before is touched.
C13_IndependentRetries ==
    [][/\ call' # NoCall => nwaits' = attempt_number' - 1
       /\ (pc' = "raised" /\ call'.wrapped /\ attempt' # NoExc)
             => nwaits' = stop_max_attempt_number - 1
       /\ (pc = "backoff" \/ pc' = "backoff")
             => /\ pc' \in {"fetch", "backoff"}
                /\ call' = call
                /\ batch' = batch
                /\ user' = user
                /\ processed' = processed
                /\ absorbed' = absorbed]_vars

C13_Witness ==
    /\ call.site = "L83"
    /\ absorbed = stop_max_attempt_number - 1
    /\ attempt_number = stop_max_attempt_number
    /\ attempt = NoExc
    /\ pc = "sleep_page"
    /\ Len(batch.matches) = 1

\* the value of the fetch `call` is where the code that called it put it
Delivered ==
    IF call.site = "L101" THEN user.hist = <<HistoryPage(upstream, call.kwargs)>>
    ELSE IF call.site \in {"L68", "L88"}
         THEN batch.hist = <<HistoryPage(upstream, call.kwargs)>>
         ELSE IF call.site = "L108"
              THEN user.heroes = HeroList(upstream).heroes
              ELSE Last(batch.matches) = MatchDetails(upstream, call.kwargs)

\* C14: a wrapped fetch that succeeded after failing with APITimeoutError
\* only has made k <= 5 attempts and k - 1 waits (none when k = 1) and its
\* result is the one delivered; every wait before a further attempt lasted
\* between 5000 and 60000 ms.
C14_SucceedsOnAttemptK ==
    /\ (call.wrapped /\ pc = "fetch" /\ attempt_number > 1)
          => (slept >= 5000 /\ slept <= 60000)
    /\ (call.wrapped /\ attempt = NoExc /\ pc \notin {"fetch", "backoff"}
            /\ caught \subseteq {"APITimeoutError"})
          => /\ attempt_number \in 1..5
             /\ nwaits = attempt_number - 1
             /\ (caught = {} <=> nwaits = 0)
             /\ Delivered

C14_Witness ==
    /\ call.wrapped
    /\ call.site = "L88"
    /\ attempt = NoExc
    /\ caught = {"APITimeoutError"}
    /\ attempt_number = 3
    /\ nwaits = 2
    /\ pc = "done"
    /\ Len(retval[1]) > 0

\* C15: after every step in the over-cap branch the requests in progress
\* belong to the walk of one hero, heroes[each_hero], and carry its id in
\* the walk's first page; the call moves to the next hero of the
\* list only at the step at which a page fetch of the walk returns and the
\* walk with it, and at that step appends the walk's matches to those of the
\* heroes before; what the call returns is that concatenation, after the
\* last hero.
C15_SequentialHeroWalks ==
    [][/\ (user'.line = 119 /\ pc' \in {"fetch", "backoff", "sleep_detail", "sleep_page"})
             => /\ user'.each_hero \in 1..Len(user'.heroes)
                /\ batch'.kwargs = ("hero_id" :> user'.heroes[user'.each_hero].id)
                /\ call'.site = "L68"
                      => call'.kwargs.hero_id = user'.heroes[user'.each_hero].id
       /\ (user'.line = 119 /\ pc' = "done")
             => /\ user'.each_hero = Len(user'.heroes) + 1
                /\ retval' = <<user'.matches>>
       /\ (user.line = 119 /\ user' # user)
             => /\ pc = "fetch" /\ call.site \in {"L68", "L88"}
                /\ user' = [user EXCEPT !.each_hero = @ + 1,
                                         !.matches = @ \o batch.matches]
                /\ \/ pc' = "done"
                   \/ pc' = "fetch" /\ call'.site = "L68" /\ attempt_number' = 1]_vars

C15_Witness ==
    /\ pc = "done"
    /\ user.line = 119
    /\ Consistent
    /\ upstream.hero_of = <<1, 2>>
    /\ Len(user.heroes) = 2
    /\ MatchIds(retval[1]) = <<1, 2>>
    /\ processed = <<1, 2>>

\* C16: whenever a detail request (line 83) or a next-page request (lines
\* 88-89) is about to go to the executor, the thread has slept since the
\* executor was last called: 1000 ms before the first attempt of the fetch,
\* and no less before a further one.
C16_Paced ==
    (pc = "fetch" /\ call.site \in {"L83", "L88"})
    => /\ slept >= 1000
       /\ attempt_number = 1 => slept = 1000

C16_Witness ==
    /\ pc = "fetch"
    /\ call.site = "L83"
    /\ attempt_number = 1
    /\ slept = 1000
    /\ Len(batch.matches) = 1
    /\ req_status_code = 200

C18_TransportFaultRetried ==
    (call.wrapped /\ attempt.type = "TransportError" /\ pc # "fetch")
    => /\ req_status_code = 0
       /\ IF attempt_number < 5
          THEN pc = "backoff"
          ELSE attempt_number = 5 /\ pc = "raised" /\ exc = attempt

C18_Witness ==
    /\ pc = "raised"
    /\ call.site = "L83"
    /\ caught = {"TransportError"}
    /\ nwaits = 4
    /\ exc.type = "TransportError"

\* C19: at the step at which the first page of a hero's walk comes back with
\* total_results = 0, the walk returns: the call moves to the next hero with
\* its accumulated matches unchanged and no summary taken, and what follows
\* is the first page request of the next hero or the return of the call; no
\* error is raised.
C19_EmptyHeroWalk ==
    [][(/\ user.line = 119
        /\ pc = "fetch"
        /\ call.site = "L68"
        /\ HistoryPage(upstream, call.kwargs).total_results = 0
        /\ attempt' = NoExc)
       => /\ user' = [user EXCEPT !.each_hero = @ + 1]
          /\ processed' = processed
          /\ exc' = NoExc
          /\ \/ pc' = "done" /\ retval' = <<user.matches>> /\ batch'.matches = <<>>
             \/ /\ pc' = "fetch"
                /\ call'.site = "L68"
                /\ call'.kwargs.hero_id = user.heroes[user.each_hero + 1].id]_vars

C19_Witness ==
    /\ pc = "done"
    /\ user.line = 119
    /\ call.site = "L68"
    /\ batch.hist # <<>>
    /\ batch.hist[1].total_results = 0
    /\ batch.matches = <<>>
    /\ Len(retval[1]) > 0

====
